---- MODULE Spec2Model ----
(***************************************************************************)
(* The upgrade command of the migrator: parsing of the -from/-to flags,    *)
(* oobmigration.MakeUpgradeRange, cliutil.planUpgrade and                  *)
(* cliutil.runUpgrade.                                                     *)
(*                                                                         *)
(* Strings are sequences of one-character strings, so that formatting      *)
(* (String, GitTag) and parsing (NewVersionFromString) are computed.       *)
(***************************************************************************)
EXTENDS Integers, Sequences, FiniteSets, TLC

VARIABLES
    fromFlag,       \* value of the -from flag
    toFlag,         \* value of the -to flag
    registry,       \* registered out-of-band migrations: id -> deprecatedAt
    oobProgress,    \* durable progress of each out-of-band migration (0 or 1)
    pc,             \* position of the command
    from,           \* Upgrade / MakeUpgradeRange: from
    to,             \* Upgrade / MakeUpgradeRange: to
    v,              \* MakeUpgradeRange: loop variable
    versions,       \* MakeUpgradeRange: versions (the returned range)
    planFrom,       \* planUpgrade: from
    planTo,         \* planUpgrade: to
    schemaIdx,      \* metadataBySchemaNameForVersion: position in SchemaNames
    metadataBySchemaName, \* planUpgrade: schema name -> leafIDsByRev
    stitchCalls,    \* schema names StitchDefinitions was called with, in order
    raised,         \* the error a collaborator of planUpgrade returned
    interrupts,     \* planUpgrade: interrupts
    stepIdx,        \* planUpgrade: position in interrupts
    steps,          \* planUpgrade: steps (the returned plan)
    runIdx,         \* runUpgrade: number of steps handled
    err,            \* error returned by the command
    specCount,      \* changeset_specs: number of rows (ids 1..specCount)
    migratedSpecs,  \* changeset_specs: ids of the rows with migrated = TRUE
    migCall,        \* changesetSpecMigrator: the last method called
    migProgress,    \* changesetSpecMigrator: value the last Progress returned
    migErr,         \* changesetSpecMigrator: error the last call returned
    drivePc,        \* driveToCompletion: position
    driveLog,       \* driveToCompletion: values Progress returned, in order
    upCalls,        \* driveToCompletion: number of Up calls made
    driveErr,       \* driveToCompletion: error returned
    driveFn,        \* the runner function called: driveToCompletion or driveToZero
    downCalls,      \* driveToZero: number of Down calls made
    stSnapshots,    \* resolveLeafSets: the snapshot recorded at each requested tag
    stPc,           \* resolveLeafSets: position
    stIdx,          \* resolveLeafSets: position in the requested tags
    stFetched,      \* resolveLeafSets: nodes of the current tag, as fetched
    stLeafSets,     \* resolveLeafSets: leaf sets resolved so far, by tag
    stErr,          \* resolveLeafSets: error returned
    fnIn,           \* a function of the version model: its arguments
    fnPc,           \* a function of the version model: position of the call
    fnOut,          \* a function of the version model: what it returned
    txPc,           \* changesetSpecMigrator.Up: each caller's position inside the call
    migBatch,       \* changesetSpecMigrator.Up: ids of the specs each caller listed
    txMigrated,     \* changesetSpecMigrator.Up: ids migrated in each caller's open transaction
    upOk,           \* number of Up calls that returned nil
    pending0,       \* number of specs that required migration at the start
    numCallers      \* number of goroutines that call Up on the migrator

vars == <<fromFlag, toFlag, registry, oobProgress, pc, from, to, v, versions,
          planFrom, planTo, schemaIdx, metadataBySchemaName, stitchCalls,
          raised, interrupts, stepIdx, steps, runIdx, err,
          specCount, migratedSpecs, migCall, migProgress, migErr,
          drivePc, driveLog, upCalls, driveErr, driveFn, downCalls,
          stSnapshots, stPc, stIdx, stFetched, stLeafSets, stErr,
          fnIn, fnPc, fnOut,
          txPc, migBatch, txMigrated, upOk, pending0, numCallers>>

----------------------------------------------------------------------------
(* Bounds of the model *)

\* majors of the checked versions are 2..MaxMajor
MaxMajor == 4
\* the low minors of the versions given to MakeUpgradeRange are 0..LowMinor
LowMinor == 9
\* the low minors of the versions given as flags are 0..FlagLowMinor
FlagLowMinor == 1
\* the loop of MakeUpgradeRange is followed while v.Minor <= MaxMinor
MaxMinor == 48
\* out-of-band migrations have ids 1..NumMigrations
NumMigrations == 2
\* the changeset_specs table has at most MaxSpecs rows
MaxSpecs == 201
\* a drive is followed for at most MaxUps calls of Up
MaxUps == 6
\* planUpgrade is given ranges within the first PlanChainLen releases from 1.0
PlanChainLen == 4
\* resolveLeafSets is asked for NumTags tags
NumTags == 2
\* Up calls are followed until MaxBatches of them have returned nil
MaxBatches == 4

----------------------------------------------------------------------------
(* Version model: src/internal/oobmigration/version.go *)

NewVersion(major, minor) == [Major |-> major, Minor |-> minor]

VersionOrderBefore == 0
VersionOrderEqual == 1
VersionOrderAfter == 2

\* A mutant of CompareVersions: the minor is compared first.
CompareVersionsMinorFirst(a, b) ==
    IF a.Minor < b.Minor THEN VersionOrderBefore
    ELSE IF a.Minor > b.Minor THEN VersionOrderAfter
    ELSE IF a.Major < b.Major THEN VersionOrderBefore
    ELSE IF a.Major > b.Major THEN VersionOrderAfter
    ELSE VersionOrderEqual

\* A mutant of CompareVersions: the minor is not compared.
CompareVersionsMajorOnly(a, b) ==
    IF a.Major < b.Major THEN VersionOrderBefore
    ELSE IF a.Major > b.Major THEN VersionOrderAfter
    ELSE VersionOrderEqual

CompareVersions(a, b) ==
    IF a.Major < b.Major THEN VersionOrderBefore
    ELSE IF a.Major > b.Major THEN VersionOrderAfter
    ELSE IF a.Minor < b.Minor THEN VersionOrderBefore
    ELSE IF a.Minor > b.Minor THEN VersionOrderAfter
    ELSE VersionOrderEqual

lastInSeries == [major \in {3} |-> 47]

\* Go's map lookup: a missing key yields the zero value.
lastInSeriesAt(major) ==
    IF major \in DOMAIN lastInSeries THEN lastInSeries[major] ELSE 0

\* A mutant of bump: the major is never changed.
bumpMinorOnly(w) == NewVersion(w.Major, w.Minor + 1)

bump(w) ==
    IF lastInSeriesAt(w.Major) = w.Minor
    THEN NewVersion(w.Major + 1, 0)
    ELSE NewVersion(w.Major, w.Minor + 1)

----------------------------------------------------------------------------
(* Formatting and parsing *)

DigitChars == <<"0", "1", "2", "3", "4", "5", "6", "7", "8", "9">>

IsDigit(c) == \E i \in 1..Len(DigitChars) : DigitChars[i] = c

DigitValue(c) == (CHOOSE i \in 1..Len(DigitChars) : DigitChars[i] = c) - 1

\* fmt's %d of a non-negative int
RECURSIVE Itoa(_)
Itoa(n) ==
    IF n < 10 THEN <<DigitChars[n + 1]>>
    ELSE Itoa(n \div 10) \o <<DigitChars[(n % 10) + 1]>>

\* math.MaxInt64, 1<<63 - 1, in decimal
MaxInt64Decimal ==
    <<"9", "2", "2", "3", "3", "7", "2", "0", "3", "6", "8", "5", "4", "7", "7",
      "5", "8", "0", "7">>

\* a < b for two numbers in decimal without leading zeros
DecimalBelow(a, b) ==
    \/ Len(a) < Len(b)
    \/ /\ Len(a) = Len(b)
       /\ \E i \in 1..Len(a) :
             /\ \A j \in 1..(i - 1) : a[j] = b[j]
             /\ DigitValue(a[i]) < DigitValue(b[i])

\* strconv.Atoi of a string of digits, the int it returns written in
\* decimal: the digits are taken in from the left, and a number above
\* MaxInt64 is returned as MaxInt64 together with a range error, which
\* NewVersionFromString drops
RECURSIVE AtoiDecimal(_)
AtoiDecimal(s) ==
    IF s = <<>> THEN <<"0">>
    ELSE LET n    == AtoiDecimal(SubSeq(s, 1, Len(s) - 1))
             next == IF n = <<"0">> THEN <<s[Len(s)]>> ELSE Append(n, s[Len(s)])
         IN  IF DecimalBelow(MaxInt64Decimal, next) THEN MaxInt64Decimal ELSE next

\* the int written in decimal as d; TLC's integers hold it below 2^31
RECURSIVE IntOfDecimal(_)
IntOfDecimal(d) ==
    IF d = <<>> THEN 0
    ELSE 10 * IntOfDecimal(SubSeq(d, 1, Len(d) - 1)) + DigitValue(d[Len(d)])

\* strconv.Atoi of a string of digits, with its error dropped
Atoi(s) == IntOfDecimal(AtoiDecimal(s))

String(w) == Itoa(w.Major) \o <<".">> \o Itoa(w.Minor)

GitTag(w) == <<"v">> \o Itoa(w.Major) \o <<".">> \o Itoa(w.Minor) \o <<".", "0">>

\* the parts of s between the dots
RECURSIVE SplitDots(_)
SplitDots(s) ==
    IF \A i \in 1..Len(s) : s[i] # "."
    THEN <<s>>
    ELSE LET d == CHOOSE i \in 1..Len(s) :
                      s[i] = "." /\ \A j \in 1..(i - 1) : s[j] # "."
         IN  <<SubSeq(s, 1, d - 1)>> \o SplitDots(SubSeq(s, d + 1, Len(s)))

IsNumber(s) == s # <<>> /\ \A i \in 1..Len(s) : IsDigit(s[i])

\* versionPattern: ^v?(\d+)\.(\d+)(?:\.\d+)?$
versionPattern(s) ==
    LET body  == IF s # <<>> /\ s[1] = "v" THEN Tail(s) ELSE s
        parts == SplitDots(body)
    IN  IF Len(parts) \in {2, 3} /\ \A i \in 1..Len(parts) : IsNumber(parts[i])
        THEN <<parts[1], parts[2]>>
        ELSE <<>>

\* NewVersionFromString, the fields of the returned Version written in
\* decimal (an int of the program has 64 bits)
NewVersionFromStringDecimal(s) ==
    LET matches == versionPattern(s)
    IN  IF matches # <<>>
        THEN [version |-> [Major |-> AtoiDecimal(matches[1]),
                           Minor |-> AtoiDecimal(matches[2])], ok |-> TRUE]
        ELSE [version |-> [Major |-> <<"0">>, Minor |-> <<"0">>], ok |-> FALSE]

NewVersionFromString(s) ==
    LET matches == versionPattern(s)
    IN  IF matches # <<>>
        THEN [version |-> NewVersion(Atoi(matches[1]), Atoi(matches[2])), ok |-> TRUE]
        ELSE [version |-> NewVersion(0, 0), ok |-> FALSE]

----------------------------------------------------------------------------
(* Errors *)

NoError == [kind |-> "nil", detail |-> ""]
ErrBadFrom == [kind |-> "New", detail |-> "bad format for -from"]
ErrBadTo == [kind |-> "New", detail |-> "bad format for -to"]
ErrInvalidRange == [kind |-> "Newf", detail |-> "invalid range"]
ErrUnimplemented == [kind |-> "New", detail |-> "unimplemented tho"]
ErrStitch(schemaName) == [kind |-> "StitchDefinitions", detail |-> schemaName]
ErrSchedule == [kind |-> "ScheduleMigrationInterrupts", detail |-> ""]

----------------------------------------------------------------------------
(* Helpers *)

Last(s) == s[Len(s)]

RangeOf(s) == {s[i] : i \in 1..Len(s)}

\* the integers of S in ascending order
RECURSIVE SortInts(_)
SortInts(S) ==
    IF S = {} THEN <<>>
    ELSE LET m == CHOOSE x \in S : \A y \in S : x <= y
         IN  <<m>> \o SortInts(S \ {m})

\* the versions of S in ascending order
RECURSIVE SortVersions(_)
SortVersions(S) ==
    IF S = {} THEN <<>>
    ELSE LET m == CHOOSE x \in S : \A y \in S : CompareVersions(x, y) # VersionOrderAfter
         IN  <<m>> \o SortVersions(S \ {m})

----------------------------------------------------------------------------
(* Collaborators of planUpgrade that the sources only call: the schema     *)
(* names, the definition source and stitch.StitchDefinitions, and          *)
(* oobmigration.ScheduleMigrationInterrupts.                               *)

SchemaNames == <<"frontend", "codeintel", "codeinsights">>

SchemaIndex(schemaName) == CHOOSE i \in 1..Len(SchemaNames) : SchemaNames[i] = schemaName

\* The definition history of a schema: definition `id` is part of every
\* snapshot from release `since` on.  The history branches at 4.0 and is
\* linearized at 4.1.
Definitions(schemaName) ==
    LET base == 10 * SchemaIndex(schemaName)
    IN  { [id |-> base + 1, parents |-> {}, since |-> NewVersion(0, 0)],
          [id |-> base + 2, parents |-> {base + 1}, since |-> NewVersion(3, 47)],
          [id |-> base + 3, parents |-> {base + 1}, since |-> NewVersion(4, 0)],
          [id |-> base + 4, parents |-> {base + 2, base + 3}, since |-> NewVersion(4, 1)] }

\* getSnapshot(schemaName, versionTag)
Snapshot(schemaName, tag) ==
    LET at == NewVersionFromString(tag).version
    IN  {d \in Definitions(schemaName) : CompareVersions(d.since, at) # VersionOrderAfter}

\* A mutant of LeafSet: the leaves by descending id.
LeafSetDescending(snapshot) ==
    LET ids == {d.id : d \in {x \in snapshot : \A c \in snapshot : x.id \notin c.parents}}
        asc == SortInts(ids)
    IN  [k \in 1..Len(asc) |-> asc[Len(asc) + 1 - k]]

\* the nodes of a snapshot with no child in that snapshot, by ascending id
LeafSet(snapshot) ==
    SortInts({d.id : d \in {x \in snapshot : \A c \in snapshot : x.id \notin c.parents}})

\* leafIDsByRev of stitch.StitchDefinitions(schemaName, _, tags)
StitchDefinitions(schemaName, tags) ==
    [tag \in RangeOf(tags) |-> LeafSet(Snapshot(schemaName, tag))]

MigrationIDs == 1..NumMigrations

\* A mutant of ScheduleMigrationInterrupts: the range is [f, t].
ScheduleMigrationInterruptsFromIncluded(f, t) ==
    LET due == {id \in DOMAIN registry :
                    /\ CompareVersions(f, registry[id]) # VersionOrderAfter
                    /\ CompareVersions(registry[id], t) # VersionOrderAfter}
        at  == SortVersions({registry[id] : id \in due})
    IN  [i \in 1..Len(at) |->
            [Version |-> at[i],
             MigrationIDs |-> SortInts({id \in due : registry[id] = at[i]})]]

\* A mutant of ScheduleMigrationInterrupts: one interrupt per migration.
ScheduleMigrationInterruptsUnmerged(f, t) ==
    LET due == {id \in DOMAIN registry :
                    /\ CompareVersions(f, registry[id]) = VersionOrderBefore
                    /\ CompareVersions(registry[id], t) # VersionOrderAfter}
        at  == SortVersions({registry[id] : id \in due})
        ids == SortInts(due)
    IN  [i \in 1..Len(ids) |->
            [Version |-> at[Cardinality({id \in due :
                                CompareVersions(registry[id], registry[ids[i]]) = VersionOrderBefore}) + 1],
             MigrationIDs |-> <<ids[i]>>]]

\* one interrupt per version in (f, t] at which a registered migration is
\* deprecated, ascending, listing the migrations deprecated at that version
ScheduleMigrationInterrupts(f, t) ==
    LET due == {id \in DOMAIN registry :
                    /\ CompareVersions(f, registry[id]) = VersionOrderBefore
                    /\ CompareVersions(registry[id], t) # VersionOrderAfter}
        at  == SortVersions({registry[id] : id \in due})
    IN  [i \in 1..Len(at) |->
            [Version |-> at[i],
             MigrationIDs |-> SortInts({id \in due : registry[id] = at[i]})]]

----------------------------------------------------------------------------
(* Inputs *)

Majors == 2..MaxMajor

\* minors near 0 and minors around the last minor of series 3
RangeMinors == (0..LowMinor) \cup ((lastInSeries[3] - 1)..MaxMinor)

RangeVersions == {NewVersion(major, minor) : major \in Majors, minor \in RangeMinors}

FlagMinors == (0..FlagLowMinor) \cup {lastInSeries[3] - 1, lastInSeries[3]}

FlagVersions == {NewVersion(major, minor) : major \in Majors, minor \in FlagMinors}

BadFlags == { <<"3">>, <<"v", "4", ".", "x">> }

FromFlags == {String(w) : w \in FlagVersions} \cup BadFlags

ToFlags == {GitTag(w) : w \in FlagVersions} \cup BadFlags

\* the versions at which a registered migration is deprecated: the last
\* release of series 3 and the first two of series 4
DeprecationVersions ==
    {NewVersion(3, lastInSeries[3]), NewVersion(4, 0), NewVersion(4, 1)}

\* either no registered migration has run yet or all have completed
ProgressStates == {[id \in MigrationIDs |-> p] : p \in {0, 1}}

----------------------------------------------------------------------------
(* Initial states *)

\* a float64 that is the quotient of two counts
Ratio(n, d) == [num |-> n, den |-> d]

migratorVars == <<specCount, migratedSpecs, migCall, migProgress, migErr>>

\* the changeset spec migrator is not used
MigratorIdle ==
    /\ specCount = 0
    /\ migratedSpecs = {}
    /\ migCall = "none"
    /\ migProgress = Ratio(0, 1)
    /\ migErr = NoError

driveVars == <<drivePc, driveLog, upCalls, driveErr, driveFn, downCalls>>

\* no migrator is being driven
DriveIdle ==
    /\ drivePc = "idle"
    /\ driveLog = <<>>
    /\ upCalls = 0
    /\ driveErr = NoError
    /\ driveFn = "none"
    /\ downCalls = 0

stitchVars == <<stSnapshots, stPc, stIdx, stFetched, stLeafSets, stErr>>

\* no leaf sets are being resolved
StitchIdle ==
    /\ stSnapshots = <<>>
    /\ stPc = "idle"
    /\ stIdx = 1
    /\ stFetched = <<>>
    /\ stLeafSets = <<>>
    /\ stErr = NoError

fnVars == <<fnIn, fnPc, fnOut>>

\* no function of the version model is called on its own
FnIdle ==
    /\ fnIn = [a |-> NewVersion(0, 0), b |-> NewVersion(0, 0),
               c |-> NewVersion(0, 0), str |-> <<>>]
    /\ fnPc = "idle"
    /\ fnOut = [op |-> "none"]

txVars == <<txPc, migBatch, txMigrated, upOk, pending0, numCallers>>

\* the goroutines that call Up: the worker that drives the migration and
\* another caller
Callers == {1, 2}

\* no call of Up is in progress
TxIdle ==
    /\ txPc = [c \in Callers |-> "idle"]
    /\ migBatch = [c \in Callers |-> {}]
    /\ txMigrated = [c \in Callers |-> {}]
    /\ upOk = 0
    /\ pending0 = 0
    /\ numCallers = 0

\* the components the upgrade command does not call are not used
ComponentsIdle == MigratorIdle /\ DriveIdle /\ StitchIdle /\ FnIdle /\ TxIdle

InitLocals ==
    /\ v = NewVersion(0, 0)
    /\ versions = <<>>
    /\ planFrom = NewVersion(0, 0)
    /\ planTo = NewVersion(0, 0)
    /\ schemaIdx = 1
    /\ metadataBySchemaName = <<>>
    /\ stitchCalls = <<>>
    /\ raised = NoError
    /\ interrupts = <<>>
    /\ stepIdx = 1
    /\ steps = <<>>
    /\ runIdx = 0
    /\ err = NoError

\* the upgrade command is started with its two flags
Init ==
    /\ fromFlag \in FromFlags
    /\ toFlag \in ToFlags
    /\ registry \in [MigrationIDs -> DeprecationVersions]
    /\ oobProgress \in ProgressStates
    /\ pc = "Upgrade"
    /\ from = NewVersion(0, 0)
    /\ to = NewVersion(0, 0)
    /\ InitLocals
    /\ ComponentsIdle

\* MakeUpgradeRange is called with two versions
InitRange ==
    /\ fromFlag = <<>>
    /\ toFlag = <<>>
    /\ registry = [id \in MigrationIDs |-> NewVersion(3, lastInSeries[3])]
    /\ oobProgress = [id \in MigrationIDs |-> 0]
    /\ pc = "MakeUpgradeRange"
    /\ from \in RangeVersions
    /\ to \in RangeVersions
    /\ InitLocals
    /\ ComponentsIdle

----------------------------------------------------------------------------
(* Upgrade: src/unnamed/part_000 *)

rangeVars == <<v, versions>>
planVars == <<planFrom, planTo, schemaIdx, metadataBySchemaName, stitchCalls,
              raised, interrupts, stepIdx, steps>>
\* what the upgrade command reads and never writes, and the state of the
\* components it does not call
inputVars == <<fromFlag, toFlag, registry, oobProgress, migratorVars, driveVars,
               stitchVars, fnVars, txVars>>

\* the flags are parsed; a flag that does not parse ends the command
UpgradeParse ==
    /\ pc = "Upgrade"
    /\ LET f == NewVersionFromString(fromFlag)
           t == NewVersionFromString(toFlag)
       IN  IF ~f.ok
           THEN /\ err' = ErrBadFrom
                /\ pc' = "done"
                /\ UNCHANGED <<from, to>>
           ELSE IF ~t.ok
           THEN /\ from' = f.version
                /\ err' = ErrBadTo
                /\ pc' = "done"
                /\ UNCHANGED to
           ELSE /\ from' = f.version
                /\ to' = t.version
                /\ pc' = "MakeUpgradeRange"
                /\ UNCHANGED err
    /\ UNCHANGED <<inputVars, rangeVars, planVars, runIdx>>

----------------------------------------------------------------------------
(* MakeUpgradeRange: src/internal/oobmigration/version.go *)

\* A mutant of MakeUpgradeRangeEnter: from must be before to.
MakeUpgradeRangeEnterStrict ==
    /\ pc = "MakeUpgradeRange"
    /\ IF CompareVersions(from, to) # VersionOrderBefore
       THEN /\ err' = ErrInvalidRange
            /\ pc' = "done"
            /\ UNCHANGED v
       ELSE /\ v' = from
            /\ pc' = "MakeUpgradeRangeLoop"
            /\ UNCHANGED err
    /\ UNCHANGED <<inputVars, from, to, versions, planVars, runIdx>>

\* the order of from and to is checked, and the loop starts at from
MakeUpgradeRangeEnter ==
    /\ pc = "MakeUpgradeRange"
    /\ IF CompareVersions(from, to) = VersionOrderAfter
       THEN /\ err' = ErrInvalidRange
            /\ pc' = "done"
            /\ UNCHANGED v
       ELSE /\ v' = from
            /\ pc' = "MakeUpgradeRangeLoop"
            /\ UNCHANGED err
    /\ UNCHANGED <<inputVars, from, to, versions, planVars, runIdx>>

\* one iteration of the loop: v is appended and bumped
MakeUpgradeRangeLoop ==
    /\ pc = "MakeUpgradeRangeLoop"
    /\ CompareVersions(v, to) # VersionOrderAfter
    /\ v.Minor <= MaxMinor
    /\ versions' = Append(versions, v)
    /\ v' = bump(v)
    /\ UNCHANGED <<inputVars, pc, from, to, planVars, runIdx, err>>

\* the loop ends and the versions are returned to Upgrade
MakeUpgradeRangeReturn ==
    /\ pc = "MakeUpgradeRangeLoop"
    /\ CompareVersions(v, to) = VersionOrderAfter
    /\ pc' = "planUpgrade"
    /\ UNCHANGED <<inputVars, from, to, rangeVars, planVars, runIdx, err>>

NextRange ==
    \/ MakeUpgradeRangeEnter
    \/ MakeUpgradeRangeLoop
    \/ MakeUpgradeRangeReturn

SpecRange == InitRange /\ [][NextRange]_vars

----------------------------------------------------------------------------
(* planUpgrade: src/internal/database/migration/cliutil/upgrade_planner.go *)

gitTags(vs) == [i \in 1..Len(vs) |-> GitTag(vs[i])]

\* Go's map lookup: a missing key yields nil
leafIDsAt(leafIDsByRev, tag) ==
    IF tag \in DOMAIN leafIDsByRev THEN leafIDsByRev[tag] ELSE <<>>

makeUpgradeStep(version, migrationIDs) ==
    [InstanceVersion |-> version,
     LeafMigrationIDsBySchema |->
         [schemaName \in DOMAIN metadataBySchemaName |->
             leafIDsAt(metadataBySchemaName[schemaName], GitTag(version))],
     OutOfBandMigrationIDs |-> migrationIDs]

\* planUpgrade returns (nil, e): Upgrade returns e
PlanFails(e) ==
    /\ steps' = <<>>
    /\ err' = e
    /\ pc' = "done"

\* planUpgrade is entered with the version range
PlanEnter ==
    /\ pc = "planUpgrade"
    /\ IF versions = <<>>
       THEN /\ steps' = <<>>
            /\ runIdx' = 0
            /\ pc' = "runUpgrade"
            /\ UNCHANGED <<planFrom, planTo, schemaIdx>>
       ELSE /\ planFrom' = versions[1]
            /\ planTo' = Last(versions)
            /\ schemaIdx' = 1
            /\ pc' = "metadataBySchemaNameForVersion"
            /\ UNCHANGED <<steps, runIdx>>
    /\ UNCHANGED <<inputVars, from, to, rangeVars, metadataBySchemaName,
                   stitchCalls, raised, interrupts, stepIdx, err>>

\* A mutant of PlanStitch: a failed schema is skipped and the loop goes on.
PlanStitchGoesOn ==
    /\ pc = "metadataBySchemaNameForVersion"
    /\ schemaIdx <= Len(SchemaNames)
    /\ stitchCalls' = Append(stitchCalls, SchemaNames[schemaIdx])
    /\ schemaIdx' = schemaIdx + 1
    /\ \E ok \in BOOLEAN :
          IF ok
          THEN /\ metadataBySchemaName' =
                      [schemaName \in DOMAIN metadataBySchemaName \cup {SchemaNames[schemaIdx]} |->
                          IF schemaName = SchemaNames[schemaIdx]
                          THEN StitchDefinitions(schemaName, gitTags(versions))
                          ELSE metadataBySchemaName[schemaName]]
               /\ UNCHANGED raised
          ELSE /\ raised' = ErrStitch(SchemaNames[schemaIdx])
               /\ UNCHANGED metadataBySchemaName
    /\ UNCHANGED <<inputVars, pc, from, to, rangeVars, planFrom, planTo,
                   interrupts, stepIdx, steps, runIdx, err>>

\* metadataBySchemaNameForVersion: the definitions of the next schema are
\* stitched; a failure ends planUpgrade
PlanStitch ==
    /\ pc = "metadataBySchemaNameForVersion"
    /\ schemaIdx <= Len(SchemaNames)
    /\ stitchCalls' = Append(stitchCalls, SchemaNames[schemaIdx])
    /\ \E ok \in BOOLEAN :
          IF ok
          THEN /\ metadataBySchemaName' =
                      [schemaName \in DOMAIN metadataBySchemaName \cup {SchemaNames[schemaIdx]} |->
                          IF schemaName = SchemaNames[schemaIdx]
                          THEN StitchDefinitions(schemaName, gitTags(versions))
                          ELSE metadataBySchemaName[schemaName]]
               /\ schemaIdx' = schemaIdx + 1
               /\ UNCHANGED <<raised, steps, err, pc>>
          ELSE /\ raised' = ErrStitch(SchemaNames[schemaIdx])
               /\ PlanFails(ErrStitch(SchemaNames[schemaIdx]))
               /\ UNCHANGED <<metadataBySchemaName, schemaIdx>>
    /\ UNCHANGED <<inputVars, from, to, rangeVars, planFrom, planTo,
                   interrupts, stepIdx, runIdx>>

\* the interrupts between from and to are scheduled; a failure ends
\* planUpgrade
PlanSchedule ==
    /\ pc = "metadataBySchemaNameForVersion"
    /\ schemaIdx > Len(SchemaNames)
    /\ \E ok \in BOOLEAN :
          IF ok
          THEN /\ interrupts' = ScheduleMigrationInterrupts(planFrom, planTo)
               /\ stepIdx' = 1
               /\ pc' = "steps"
               /\ UNCHANGED <<raised, steps, err>>
          ELSE /\ raised' = ErrSchedule
               /\ PlanFails(ErrSchedule)
               /\ UNCHANGED <<interrupts, stepIdx>>
    /\ UNCHANGED <<inputVars, from, to, rangeVars, planFrom, planTo, schemaIdx,
                   metadataBySchemaName, stitchCalls, runIdx>>

\* one step is appended for the next interrupt
PlanAppendStep ==
    /\ pc = "steps"
    /\ stepIdx <= Len(interrupts)
    /\ steps' = Append(steps, makeUpgradeStep(interrupts[stepIdx].Version,
                                              interrupts[stepIdx].MigrationIDs))
    /\ stepIdx' = stepIdx + 1
    /\ UNCHANGED <<inputVars, pc, from, to, rangeVars, planFrom, planTo, schemaIdx,
                   metadataBySchemaName, stitchCalls, raised, interrupts, runIdx, err>>

\* A mutant of PlanReturn: the final step is not appended.
PlanReturnNoFinalStep ==
    /\ pc = "steps"
    /\ stepIdx > Len(interrupts)
    /\ runIdx' = 0
    /\ pc' = "runUpgrade"
    /\ UNCHANGED <<inputVars, from, to, rangeVars, planVars, err>>

\* A mutant of PlanReturn: the final step is put first.
PlanReturnFinalStepFirst ==
    /\ pc = "steps"
    /\ stepIdx > Len(interrupts)
    /\ steps' = <<makeUpgradeStep(planTo, <<>>)>> \o steps
    /\ runIdx' = 0
    /\ pc' = "runUpgrade"
    /\ UNCHANGED <<inputVars, from, to, rangeVars, planFrom, planTo, schemaIdx,
                   metadataBySchemaName, stitchCalls, raised, interrupts, stepIdx, err>>

\* the final step is appended and the plan is returned to Upgrade, which
\* hands it to runUpgrade
PlanReturn ==
    /\ pc = "steps"
    /\ stepIdx > Len(interrupts)
    /\ steps' = Append(steps, makeUpgradeStep(planTo, <<>>))
    /\ runIdx' = 0
    /\ pc' = "runUpgrade"
    /\ UNCHANGED <<inputVars, from, to, rangeVars, planFrom, planTo, schemaIdx,
                   metadataBySchemaName, stitchCalls, raised, interrupts, stepIdx, err>>

----------------------------------------------------------------------------
(* runUpgrade: src/internal/search/streaming/http/client.go *)

\* the next step of the plan is printed
RunStep ==
    /\ pc = "runUpgrade"
    /\ runIdx < Len(steps)
    /\ runIdx' = runIdx + 1
    /\ UNCHANGED <<inputVars, pc, from, to, rangeVars, planVars, err>>

\* all steps are printed: runUpgrade returns its error
RunReturn ==
    /\ pc = "runUpgrade"
    /\ runIdx = Len(steps)
    /\ err' = ErrUnimplemented
    /\ pc' = "done"
    /\ UNCHANGED <<inputVars, from, to, rangeVars, planVars, runIdx>>

----------------------------------------------------------------------------

Next ==
    \/ UpgradeParse
    \/ MakeUpgradeRangeEnter
    \/ MakeUpgradeRangeLoop
    \/ MakeUpgradeRangeReturn
    \/ PlanEnter
    \/ PlanStitch
    \/ PlanSchedule
    \/ PlanAppendStep
    \/ PlanReturn
    \/ RunStep
    \/ RunReturn

Spec == Init /\ [][Next]_vars

----------------------------------------------------------------------------
(* planUpgrade called with a version range                                  *)

\* the n versions MakeUpgradeRange walks through from w
RECURSIVE BumpChain(_, _)
BumpChain(w, n) == IF n = 0 THEN <<>> ELSE <<w>> \o BumpChain(bump(w), n - 1)

PlanReleases == BumpChain(NewVersion(1, 0), PlanChainLen)

\* the ranges MakeUpgradeRange returns within PlanReleases, and the empty one
PlanRanges ==
    {<<>>} \cup {SubSeq(PlanReleases, i, j) : i, j \in 1..Len(PlanReleases)}

\* the versions at which a registered migration is deprecated: the
\* versions of PlanReleases and 1.1, the release after 1.0
PlanDeprecations == RangeOf(PlanReleases) \cup {NewVersion(1, 1)}

InitPlan ==
    /\ fromFlag = <<>>
    /\ toFlag = <<>>
    /\ registry \in [MigrationIDs -> PlanDeprecations]
    /\ oobProgress = [id \in MigrationIDs |-> 0]
    /\ pc = "planUpgrade"
    /\ from = NewVersion(0, 0)
    /\ to = NewVersion(0, 0)
    /\ v = NewVersion(0, 0)
    /\ versions \in PlanRanges
    /\ planFrom = NewVersion(0, 0)
    /\ planTo = NewVersion(0, 0)
    /\ schemaIdx = 1
    /\ metadataBySchemaName = <<>>
    /\ stitchCalls = <<>>
    /\ raised = NoError
    /\ interrupts = <<>>
    /\ stepIdx = 1
    /\ steps = <<>>
    /\ runIdx = 0
    /\ err = NoError
    /\ ComponentsIdle

NextPlan ==
    \/ PlanEnter
    \/ PlanStitch
    \/ PlanSchedule
    \/ PlanAppendStep
    \/ PlanReturn

SpecPlan == InitPlan /\ [][NextPlan]_vars

----------------------------------------------------------------------------
(* changesetSpecMigrator:                                                  *)
(* src/enterprise/cmd/executor/docker-mirror/docker-mirror.json            *)

upgradeVars == <<fromFlag, toFlag, registry, oobProgress, pc, from, to,
                 rangeVars, planVars, runIdx, err>>

\* the upgrade command is not running
UpgradeIdle ==
    /\ fromFlag = <<>>
    /\ toFlag = <<>>
    /\ registry = [id \in MigrationIDs |-> NewVersion(3, lastInSeries[3])]
    /\ oobProgress = [id \in MigrationIDs |-> 0]
    /\ pc = "idle"
    /\ from = NewVersion(0, 0)
    /\ to = NewVersion(0, 0)
    /\ InitLocals

changesetSpecMigrationCountPerRun == 100

ErrProgressQuery == [kind |-> "Query", detail |-> "changesetSpecMigratorProgressQuery"]
ErrTransact == [kind |-> "Wrap", detail |-> "starting transaction"]
ErrListing == [kind |-> "Wrap", detail |-> "listing changeset specs"]
ErrMigrating == [kind |-> "Wrap", detail |-> "migrating changeset spec"]
ErrCommit == [kind |-> "Done", detail |-> "commit"]
ErrDownQuery == [kind |-> "Exec", detail |-> "changesetSpecMigratorDownQuery"]

\* changesetSpecMigratorProgressQuery on a table of `count` rows of which
\* the rows `migrated` have migrated = TRUE: c1 counts the migrated rows,
\* c2 all rows
changesetSpecMigratorProgressQuery(count, migrated) ==
    LET c1 == Cardinality(migrated)
        c2 == count
    IN  IF c2 = 0 THEN Ratio(1, 1) ELSE Ratio(c2 - c1, c2)

\* store.ListChangesetSpecs with a limit and RequiresMigration: the first
\* `limit` rows, by id, that are not migrated; a transaction that has not
\* written yet sees the committed rows
ListChangesetSpecs(limit) ==
    LET pending == (1..specCount) \ migratedSpecs
    IN  {id \in pending : Cardinality({other \in pending : other < id}) < limit}

\* the rows with migrated = TRUE a query outside the transactions sees
MigratedCommitted == migratedSpecs

\* the rows another caller's open transaction has written and holds locked
LockedByOthers(c) == UNION {txMigrated[other] : other \in Callers \ {c}}

\* the tables one caller works on: row counts at and next to the multiples
\* of the batch size, and the smallest tables
BatchCounts ==
    (0..3) \cup
    {n \in 0..MaxSpecs : \E k \in 0..MaxSpecs :
        n \in {k * changesetSpecMigrationCountPerRun - 1,
               k * changesetSpecMigrationCountPerRun,
               k * changesetSpecMigrationCountPerRun + 1}}

\* the tables several callers run Up on at the same time: less than a
\* batch, one row more than a batch, a batch and a half
RaceCounts ==
    {n \in 0..MaxSpecs :
        n \in {2, 3, changesetSpecMigrationCountPerRun + 1,
               changesetSpecMigrationCountPerRun
                   + changesetSpecMigrationCountPerRun \div 2}}

\* the tables several callers run Up and Down on at the same time
DownRaceCounts == {n \in 0..MaxSpecs : n \in {2, 3}}

\* the contents the migrator can be started on: nothing migrated, everything
\* migrated, the first half migrated, only the last row migrated
InitialMigrated(count) ==
    {{}, 1..count, 1..(count \div 2), {count} \cap (1..count)}

\* the migrator is started on a table of one of `counts` rows with one
\* caller, of one of `raceCounts` rows with several
InitCallers(counts, raceCounts) ==
    /\ UpgradeIdle
    /\ FnIdle
    /\ DriveIdle
    /\ StitchIdle
    /\ numCallers \in Callers
    /\ specCount \in IF numCallers = 1 THEN counts ELSE raceCounts
    /\ migratedSpecs \in InitialMigrated(specCount)
    /\ migCall = "none"
    /\ migProgress = Ratio(0, 1)
    /\ migErr = NoError
    /\ txPc = [c \in Callers |-> "idle"]
    /\ migBatch = [c \in Callers |-> {}]
    /\ txMigrated = [c \in Callers |-> {}]
    /\ upOk = 0
    /\ pending0 = specCount - Cardinality(migratedSpecs)

InitMigrator == InitCallers(BatchCounts, DownRaceCounts)

\* Progress: the progress query is run, outside any transaction
ChangesetSpecProgress ==
    /\ migCall' = "Progress"
    /\ \/ /\ migProgress' = changesetSpecMigratorProgressQuery(specCount, MigratedCommitted)
          /\ migErr' = NoError
       \/ /\ migProgress' = Ratio(0, 1)
          /\ migErr' = ErrProgressQuery
    /\ UNCHANGED <<upgradeVars, fnVars, txVars, driveVars, stitchVars, specCount,
                   migratedSpecs>>

\* A mutant of UpFails: the error is returned without tx.Done and the
\* work done so far is committed.
UpFailsCommitted(c, e) ==
    /\ migCall' = "Up"
    /\ migErr' = e
    /\ txPc' = [txPc EXCEPT ![c] = "idle"]
    /\ migBatch' = [migBatch EXCEPT ![c] = {}]
    /\ txMigrated' = [txMigrated EXCEPT ![c] = {}]
    /\ migratedSpecs' = migratedSpecs \cup txMigrated[c]
    /\ UNCHANGED <<specCount, migProgress, upOk, pending0, numCallers>>

\* caller c's Up returns e through tx.Done: the transaction, if open, is
\* rolled back
UpFails(c, e) ==
    /\ migCall' = "Up"
    /\ migErr' = e
    /\ txPc' = [txPc EXCEPT ![c] = "idle"]
    /\ migBatch' = [migBatch EXCEPT ![c] = {}]
    /\ txMigrated' = [txMigrated EXCEPT ![c] = {}]
    /\ UNCHANGED <<specCount, migratedSpecs, migProgress, upOk, pending0, numCallers>>

\* Up: m.store.Transact
UpTransact(c) ==
    /\ c <= numCallers
    /\ txPc[c] = "idle"
    /\ upOk < MaxBatches
    /\ \/ UpFails(c, ErrTransact)
       \/ /\ txPc' = [txPc EXCEPT ![c] = "list"]
          /\ UNCHANGED <<migratorVars, migBatch, txMigrated, upOk, pending0, numCallers>>
    /\ UNCHANGED <<upgradeVars, fnVars, driveVars, stitchVars>>

\* A mutant of UpList: the listing is made without LimitOpts.
UpListUnlimited(c) ==
    /\ txPc[c] = "list"
    /\ \/ UpFails(c, ErrListing)
       \/ /\ migBatch' = [migBatch EXCEPT ![c] = ListChangesetSpecs(MaxSpecs)]
          /\ txPc' = [txPc EXCEPT ![c] = "migrate"]
          /\ UNCHANGED <<migratorVars, txMigrated, upOk, pending0, numCallers>>
    /\ UNCHANGED <<upgradeVars, fnVars, driveVars, stitchVars>>

\* Up: tx.ListChangesetSpecs
UpList(c) ==
    /\ txPc[c] = "list"
    /\ \/ UpFails(c, ErrListing)
       \/ /\ migBatch' = [migBatch EXCEPT
                             ![c] = ListChangesetSpecs(changesetSpecMigrationCountPerRun)]
          /\ txPc' = [txPc EXCEPT ![c] = "migrate"]
          /\ UNCHANGED <<migratorVars, txMigrated, upOk, pending0, numCallers>>
    /\ UNCHANGED <<upgradeVars, fnVars, driveVars, stitchVars>>

\* Up: one iteration of the loop, tx.MigrateChangesetSpec on the next spec
\* of the batch; it waits while another transaction holds the row, and it
\* fails or is cancelled
UpMigrate(c) ==
    /\ txPc[c] = "migrate"
    /\ txMigrated[c] # migBatch[c]
    /\ LET left == migBatch[c] \ txMigrated[c]
           cs   == CHOOSE id \in left : \A other \in left : id <= other
       IN  \/ UpFails(c, ErrMigrating)
           \/ /\ cs \notin LockedByOthers(c)
              /\ txMigrated' = [txMigrated EXCEPT ![c] = txMigrated[c] \cup {cs}]
              /\ UNCHANGED <<migratorVars, txPc, migBatch, upOk, pending0, numCallers>>
    /\ UNCHANGED <<upgradeVars, fnVars, driveVars, stitchVars>>

\* Up: tx.Done(nil) commits the transaction
UpDone(c) ==
    /\ txPc[c] = "migrate"
    /\ txMigrated[c] = migBatch[c]
    /\ \/ UpFails(c, ErrCommit)
       \/ /\ migratedSpecs' = migratedSpecs \cup txMigrated[c]
          /\ txPc' = [txPc EXCEPT ![c] = "idle"]
          /\ migBatch' = [migBatch EXCEPT ![c] = {}]
          /\ txMigrated' = [txMigrated EXCEPT ![c] = {}]
          /\ migCall' = "Up"
          /\ migErr' = NoError
          /\ upOk' = upOk + 1
          /\ UNCHANGED <<specCount, migProgress, pending0, numCallers>>
    /\ UNCHANGED <<upgradeVars, fnVars, driveVars, stitchVars>>

\* Down: the down query is run, one statement on every row; it waits while
\* a transaction holds a row
ChangesetSpecDown ==
    /\ migCall' = "Down"
    /\ \/ /\ \A c \in Callers : txMigrated[c] = {}
          /\ migratedSpecs' = {}
          /\ migErr' = NoError
       \/ /\ migErr' = ErrDownQuery
          /\ UNCHANGED migratedSpecs
    /\ UNCHANGED <<upgradeVars, fnVars, txVars, driveVars, stitchVars, specCount,
                   migProgress>>

\* the methods of the migrator, called by any goroutine at any time
NextMigrator ==
    \/ \E c \in Callers : UpTransact(c)
    \/ \E c \in Callers : UpList(c)
    \/ \E c \in Callers : UpMigrate(c)
    \/ \E c \in Callers : UpDone(c)
    \/ ChangesetSpecProgress
    \/ ChangesetSpecDown

SpecMigrator == InitMigrator /\ [][NextMigrator]_vars

----------------------------------------------------------------------------
(* The changesetSpecMigrator driven forward: Up and Progress only          *)

InitUp == InitCallers(BatchCounts, RaceCounts)

NextUp ==
    \/ \E c \in Callers : UpTransact(c)
    \/ \E c \in Callers : UpList(c)
    \/ \E c \in Callers : UpMigrate(c)
    \/ \E c \in Callers : UpDone(c)
    \/ ChangesetSpecProgress

SpecUp == InitUp /\ [][NextUp]_vars

----------------------------------------------------------------------------
(* The out-of-band migrator runner: driveToCompletion invokes Up then       *)
(* Progress until Progress == 1.0, driveToZero Down then Progress until    *)
(* Progress == 0.0, on a Migrator whose Progress, Up and Down return what  *)
(* the migrator chooses                                                     *)

ErrProgress == [kind |-> "ProgressError", detail |-> ""]
ErrMigratorBatch == [kind |-> "MigratorBatchError", detail |-> ""]
ErrStalledMigration == [kind |-> "StalledMigrationError", detail |-> ""]

\* the values Progress of the driven migrator returns
ProgressValues == {Ratio(0, 1), Ratio(3, 10), Ratio(1, 2), Ratio(1, 1)}

\* Progress == 1.0
IsComplete(p) == p.num = p.den

\* a < b for progress values
RatioBelow(a, b) == a.num * b.den < b.num * a.den

\* Progress == 0.0
IsZero(p) == p.num = 0

\* the check after an Up (a Down) that returned p made no progress forward
\* (backward) over the check after the Up (the Down) before it; log holds
\* the earlier checks
NeverStalled(log, p) == FALSE
Stalled(log, p) ==
    /\ Len(log) >= 1
    /\ IF driveFn = "driveToZero"
       THEN ~RatioBelow(p, Last(log))
       ELSE ~RatioBelow(Last(log), p)

InitDrive ==
    /\ UpgradeIdle
    /\ FnIdle
    /\ TxIdle
    /\ MigratorIdle
    /\ StitchIdle
    /\ driveFn \in {"driveToCompletion", "driveToZero"}
    /\ drivePc = IF driveFn = "driveToZero" THEN "Down" ELSE "Up"
    /\ driveLog = <<>>
    /\ upCalls = 0
    /\ downCalls = 0
    /\ driveErr = NoError

\* A mutant of DriveUp: the loop tests Progress before its first Up.
DriveUpChecksFirst ==
    /\ drivePc = "Up"
    /\ IF driveLog = <<>>
       THEN /\ \E p \in ProgressValues :
                  /\ driveLog' = Append(driveLog, p)
                  /\ drivePc' = IF IsComplete(p) THEN "done" ELSE "Up"
            /\ UNCHANGED <<upCalls, driveErr>>
       ELSE /\ upCalls < MaxUps
            /\ upCalls' = upCalls + 1
            /\ \/ /\ drivePc' = "done"
                  /\ driveErr' = ErrMigratorBatch
               \/ /\ drivePc' = "Progress"
                  /\ UNCHANGED driveErr
            /\ UNCHANGED driveLog
    /\ UNCHANGED <<upgradeVars, fnVars, txVars, migratorVars, stitchVars,
                   driveFn, downCalls>>

\* driveToCompletion: Up is invoked, its error is surfaced
DriveUp ==
    /\ drivePc = "Up"
    /\ upCalls < MaxUps
    /\ upCalls' = upCalls + 1
    /\ \/ /\ drivePc' = "done"
          /\ driveErr' = ErrMigratorBatch
       \/ /\ drivePc' = "Progress"
          /\ UNCHANGED driveErr
    /\ UNCHANGED <<upgradeVars, fnVars, txVars, migratorVars, stitchVars, driveLog,
                   driveFn, downCalls>>

\* A mutant of DriveDown: a failed batch is tried again.
DriveDownRetries ==
    /\ drivePc = "Down"
    /\ downCalls < MaxUps
    /\ downCalls' = downCalls + 1
    /\ \/ /\ drivePc' = "Down"
          /\ driveErr' = ErrMigratorBatch
       \/ /\ drivePc' = "Progress"
          /\ UNCHANGED driveErr
    /\ UNCHANGED <<upgradeVars, fnVars, txVars, migratorVars, stitchVars, driveLog,
                   driveFn, upCalls>>

\* driveToZero: Down is invoked, its error is surfaced
DriveDown ==
    /\ drivePc = "Down"
    /\ downCalls < MaxUps
    /\ downCalls' = downCalls + 1
    /\ \/ /\ drivePc' = "done"
          /\ driveErr' = ErrMigratorBatch
       \/ /\ drivePc' = "Progress"
          /\ UNCHANGED driveErr
    /\ UNCHANGED <<upgradeVars, fnVars, txVars, migratorVars, stitchVars, driveLog,
                   driveFn, upCalls>>

\* Progress is checked after an Up or a Down
DriveProgress ==
    /\ drivePc = "Progress"
    /\ \/ /\ drivePc' = "done"
          /\ driveErr' = ErrProgress
          /\ UNCHANGED driveLog
       \/ \E p \in ProgressValues :
             /\ driveLog' = Append(driveLog, p)
             /\ IF (driveFn = "driveToZero" /\ IsZero(p))
                    \/ (driveFn = "driveToCompletion" /\ IsComplete(p))
                THEN drivePc' = "done" /\ UNCHANGED driveErr
                ELSE IF Stalled(driveLog, p)
                     THEN drivePc' = "done" /\ driveErr' = ErrStalledMigration
                     ELSE /\ drivePc' = IF driveFn = "driveToZero" THEN "Down" ELSE "Up"
                          /\ UNCHANGED driveErr
    /\ UNCHANGED <<upgradeVars, fnVars, txVars, migratorVars, stitchVars, upCalls,
                   driveFn, downCalls>>

NextDrive ==
    \/ DriveUp
    \/ DriveDown
    \/ DriveProgress

\* the runner is a sequential loop: it takes its next step
SpecDrive == InitDrive /\ [][NextDrive]_vars /\ WF_vars(NextDrive)

----------------------------------------------------------------------------
(* The migration graph stitcher: resolveLeafSets over the requested tags    *)

ErrDefinitionFetch == [kind |-> "DefinitionFetchError", detail |-> ""]
ErrInconsistentHistory == [kind |-> "InconsistentHistoryError", detail |-> ""]

\* definitions A, B (child of A), B recorded without its edge, C (child of A)
NodeA == [id |-> 1, parents |-> {}]
NodeB == [id |-> 2, parents |-> {1}]
NodeBNoEdge == [id |-> 2, parents |-> {}]
NodeC == [id |-> 3, parents |-> {1}]

\* a snapshot: every id once, every parent in the snapshot
IsSnapshot(S) ==
    /\ \A d, e \in S : d.id = e.id => d = e
    /\ \A d \in S : d.parents \subseteq {e.id : e \in S}

Snapshots == {S \in SUBSET {NodeA, NodeB, NodeBNoEdge, NodeC} : IsSnapshot(S)}

\* the orders in which the nodes of S can be fetched
FetchOrders(S) ==
    {f \in [1..Cardinality(S) -> S] : \A i, j \in 1..Cardinality(S) : f[i] = f[j] => i = j}

\* every node and every edge of the earlier snapshot is in the later one
AlwaysMonotonic(earlier, later) == TRUE
Monotonic(earlier, later) ==
    \A d \in earlier : \E e \in later : e.id = d.id /\ d.parents \subseteq e.parents

\* the graph whose leaves are the leaf set of tag i, its nodes as fetched
GraphOfAllTags(i, fetched) == UNION RangeOf(stSnapshots)
GraphAt(i, fetched) == RangeOf(fetched)

InitStitch ==
    /\ UpgradeIdle
    /\ FnIdle
    /\ TxIdle
    /\ MigratorIdle
    /\ DriveIdle
    /\ stSnapshots \in [1..NumTags -> Snapshots]
    /\ stPc = "fetch"
    /\ stIdx = 1
    /\ stFetched = <<>>
    /\ stLeafSets = <<>>
    /\ stErr = NoError

\* resolveLeafSets returns (nil, e)
StitchFails(e) ==
    /\ stLeafSets' = <<>>
    /\ stErr' = e
    /\ stPc' = "done"

\* the snapshot of the next requested tag is fetched
StitchFetch ==
    /\ stPc = "fetch"
    /\ stIdx <= Len(stSnapshots)
    /\ \/ /\ StitchFails(ErrDefinitionFetch)
          /\ UNCHANGED stFetched
       \/ /\ stFetched' \in FetchOrders(stSnapshots[stIdx])
          /\ stPc' = "resolve"
          /\ UNCHANGED <<stLeafSets, stErr>>
    /\ UNCHANGED <<upgradeVars, fnVars, txVars, migratorVars, driveVars, stSnapshots, stIdx>>

\* the fetched snapshot is checked against the snapshot of the tag before
\* it and its leaf set is resolved
StitchResolve ==
    /\ stPc = "resolve"
    /\ IF stIdx > 1 /\ ~Monotonic(stSnapshots[stIdx - 1], RangeOf(stFetched))
       THEN /\ StitchFails(ErrInconsistentHistory)
            /\ UNCHANGED stIdx
       ELSE /\ stLeafSets' = Append(stLeafSets, LeafSet(GraphAt(stIdx, stFetched)))
            /\ stIdx' = stIdx + 1
            /\ stPc' = "fetch"
            /\ UNCHANGED stErr
    /\ UNCHANGED <<upgradeVars, fnVars, txVars, migratorVars, driveVars, stSnapshots, stFetched>>

\* every requested tag is resolved
StitchReturn ==
    /\ stPc = "fetch"
    /\ stIdx > Len(stSnapshots)
    /\ stPc' = "done"
    /\ UNCHANGED <<upgradeVars, fnVars, txVars, migratorVars, driveVars, stSnapshots, stIdx,
                   stFetched, stLeafSets, stErr>>

NextStitch ==
    \/ StitchFetch
    \/ StitchResolve
    \/ StitchReturn

SpecStitch == InitStitch /\ [][NextStitch]_vars

----------------------------------------------------------------------------
(* The functions of the version model called on their own:                  *)
(* src/internal/oobmigration/version.go                                     *)

\* the versions the functions are called with
VersionInputs ==
    {NewVersion(major, minor) : major \in Majors, minor \in {0, 10, lastInSeries[3]}}

\* strings of and near the version format
OtherStrings ==
    { <<>>,
      <<"v">>,
      <<"3">>,
      <<"3", ".">>,
      <<".", "4", "7">>,
      <<"v", ".", "4", "7">>,
      <<"3", ".", "4", "7", ".">>,
      <<"3", ".", "4", "7", ".", "0", ".", "1">>,
      <<"3", ".", "x">>,
      <<"x", ".", "3">>,
      <<"v", "v", "3", ".", "4", "7">>,
      <<"3", ".", "4", "7", "v">>,
      <<"V", "3", ".", "4", "7">>,
      <<"3", "-", "4", "7">>,
      <<"3", ".", ".", "4", "7">>,
      <<"v", "3", ".", "4", "7", ".", "0", " ">>,
      <<" ", "3", ".", "4", "7">>,
      <<"3", ".", "4", "7", ".", "x">>,
      <<"3", ",", "4", "7">>,
      <<"-", "3", ".", "4", "7">>,
      <<"3", ".", "-", "4", "7">>,
      <<"+", "3", ".", "4", "7">>,
      <<"3", ".", "4", "7", "\n">>,
      <<"3", " ", ".", "4", "7">>,
      <<"0", "3", ".", "0", "4", "7">>,
      <<"v", "3", ".", "4", "7", ".", "1", "2">>,
      <<"v", "3", ".", "4", "7">>,
      <<"3", ".", "4", "7", ".", "0">>,
      <<"4", ".", "0", ".", "9", "9">>,
      <<"v", "0", "0", "3", ".", "0">>,
      <<"0", ".", "0">>,
      <<"v", "1", "0", ".", "1", "0", "0", ".", "1", "0", "0", "0">>,
      <<"3", ".", "0", "4", "7", ".", "x">>,
      <<"v", "3", ".", "4", "7", ".">>,
      <<"v", "3", ".", ".", "0">>,
      <<"3", ".", "1", "0">>,
      <<"v", "3", ".", "1", "0", ".", "0">>,
      <<"2", "1", "4", "7", "4", "8", "3", "6", "4", "8", ".", "0">>,
      MaxInt64Decimal \o <<".", "1">>,
      <<"v">> \o MaxInt64Decimal \o <<".", "0", ".", "0">>,
      SubSeq(MaxInt64Decimal, 1, 18) \o <<"8", ".", "1">>,
      <<"3", ".">> \o MaxInt64Decimal \o <<"0">>,
      <<"0", "0">> \o MaxInt64Decimal \o <<".", "0">>,
      <<"9", "9", "9", "9", "9", "9", "9", "9", "9", "9", "9", "9", "9", "9", "9",
        "9", "9", "9", "9", "9", ".", "1">> }

\* the strings NewVersionFromString is called with
StringInputs ==
    {String(w) : w \in VersionInputs} \cup {GitTag(w) : w \in VersionInputs}
        \cup OtherStrings

InitVersion ==
    /\ UpgradeIdle
    /\ TxIdle
    /\ MigratorIdle
    /\ DriveIdle
    /\ StitchIdle
    /\ \/ /\ fnIn \in [a : VersionInputs, b : VersionInputs, c : VersionInputs,
                       str : {<<>>}]
       \/ /\ fnIn \in [a : {NewVersion(3, 10)}, b : {NewVersion(3, 10)},
                       c : {NewVersion(3, 10)}, str : StringInputs]
    /\ fnPc = "call"
    /\ fnOut = [op |-> "none"]

\* CompareVersions is called on the pairs of a, b and c
CallCompareVersions ==
    /\ fnPc = "call"
    /\ fnPc' = "done"
    /\ fnOut' = [op |-> "CompareVersions",
                 aa |-> CompareVersions(fnIn.a, fnIn.a),
                 ab |-> CompareVersions(fnIn.a, fnIn.b),
                 ba |-> CompareVersions(fnIn.b, fnIn.a),
                 bc |-> CompareVersions(fnIn.b, fnIn.c),
                 ac |-> CompareVersions(fnIn.a, fnIn.c)]
    /\ UNCHANGED <<upgradeVars, txVars, migratorVars, driveVars, stitchVars, fnIn>>

\* bump is called on a
CallBump ==
    /\ fnPc = "call"
    /\ fnPc' = "done"
    /\ fnOut' = [op |-> "bump", result |-> bump(fnIn.a)]
    /\ UNCHANGED <<upgradeVars, txVars, migratorVars, driveVars, stitchVars, fnIn>>

\* NewVersionFromString is called on str
CallNewVersionFromString ==
    /\ fnPc = "call"
    /\ fnPc' = "done"
    /\ fnOut' = [op |-> "NewVersionFromString",
                 result |-> NewVersionFromStringDecimal(fnIn.str)]
    /\ UNCHANGED <<upgradeVars, txVars, migratorVars, driveVars, stitchVars, fnIn>>

\* a is formatted by String and by GitTag and both strings are parsed
CallFormatAndParse ==
    /\ fnPc = "call"
    /\ fnPc' = "done"
    /\ fnOut' = [op |-> "FormatAndParse",
                 string |-> String(fnIn.a),
                 gitTag |-> GitTag(fnIn.a),
                 ofString |-> NewVersionFromString(String(fnIn.a)),
                 ofGitTag |-> NewVersionFromString(GitTag(fnIn.a))]
    /\ UNCHANGED <<upgradeVars, txVars, migratorVars, driveVars, stitchVars, fnIn>>

NextVersion ==
    \/ CallCompareVersions
    \/ CallBump
    \/ CallNewVersionFromString
    \/ CallFormatAndParse

SpecVersion == InitVersion /\ [][NextVersion]_vars

----------------------------------------------------------------------------
(* Properties *)

\* the order of versions, stated without CompareVersions
VersionBefore(a, b) == a.Major < b.Major \/ (a.Major = b.Major /\ a.Minor < b.Minor)

VersionAtMost(a, b) == a = b \/ VersionBefore(a, b)

\* MakeUpgradeRange has returned its versions without an error
RangeReturnedOk ==
    \/ pc \in {"planUpgrade", "metadataBySchemaNameForVersion", "steps", "runUpgrade"}
    \/ pc = "done" /\ err \notin {ErrBadFrom, ErrBadTo, ErrInvalidRange}

\* MakeUpgradeRange has returned an error
RangeReturnedErr == pc = "done" /\ err = ErrInvalidRange

\* planUpgrade has returned its steps without an error
PlanReturnedOk == pc = "runUpgrade" \/ (pc = "done" /\ err = ErrUnimplemented)

\* the release after w, with the major changing only at a registered last minor
NextRelease(w) ==
    IF w.Major \in DOMAIN lastInSeries /\ lastInSeries[w.Major] = w.Minor
    THEN NewVersion(w.Major + 1, 0)
    ELSE NewVersion(w.Major, w.Minor + 1)

\* C1: every registered migration whose deprecatedAt lies in (from, to] of
\* the upgrade is listed in a step of the plan at deprecatedAt, and that
\* step comes before the final step.
C1_NoInterruptOmitted ==
    PlanReturnedOk =>
        \A id \in MigrationIDs :
            (VersionBefore(from, registry[id]) /\ VersionAtMost(registry[id], to)) =>
                \E i \in 1..(Len(steps) - 1) :
                    /\ steps[i].InstanceVersion = registry[id]
                    /\ id \in RangeOf(steps[i].OutOfBandMigrationIDs)

\* C2: MakeUpgradeRange({3,46}, {4,1}) returns [{3,46}, {3,47}, {4,0}, {4,1}]
\* and no error.
C2_RangeAcrossMajor ==
    (from = NewVersion(3, 46) /\ to = NewVersion(4, 1) /\ (RangeReturnedOk \/ RangeReturnedErr)) =>
        /\ RangeReturnedOk
        /\ versions = <<NewVersion(3, 46), NewVersion(3, 47), NewVersion(4, 0), NewVersion(4, 1)>>

\* C3: for from <= to, MakeUpgradeRange returns a non-empty sequence whose
\* first element is from and whose last element is to.
C3_RangeInclusive ==
    (VersionAtMost(from, to) /\ (RangeReturnedOk \/ RangeReturnedErr)) =>
        /\ RangeReturnedOk
        /\ versions # <<>>
        /\ versions[1] = from
        /\ Last(versions) = to

\* C4: bump moves to the next major exactly at a registered last minor and
\* to the next minor in every other case, so consecutive elements of the
\* range are one release apart.
C4_BumpIsNextRelease ==
    (pc = "MakeUpgradeRangeLoop" /\ versions # <<>>) =>
        /\ v = NextRelease(Last(versions))
        /\ \A i \in 1..(Len(versions) - 1) : versions[i + 1] = NextRelease(versions[i])

\* C5: the plan has one step per interrupt, in the interrupts' order, with
\* the interrupt's version and migration IDs, followed by one final step.
C5_OneStepPerInterrupt ==
    PlanReturnedOk =>
        /\ Len(steps) = Len(interrupts) + 1
        /\ \A i \in 1..Len(interrupts) :
              /\ steps[i].InstanceVersion = interrupts[i].Version
              /\ steps[i].OutOfBandMigrationIDs = interrupts[i].MigrationIDs
        /\ Last(steps).InstanceVersion = planTo
        /\ Last(steps).OutOfBandMigrationIDs = <<>>

\* C5 witness: a plan with two interrupts has been returned
C5_Witness == PlanReturnedOk /\ Len(interrupts) = 2 /\ Len(steps) = 3

\* C6: for valid flags with from <= to, the last step of the plan is at the
\* requested target version and lists no out-of-band migration.
C6_FinalStepAtTarget ==
    (PlanReturnedOk /\ VersionAtMost(from, to)) =>
        /\ Last(steps).InstanceVersion = to
        /\ Last(steps).OutOfBandMigrationIDs = <<>>

\* C7 as stated: the steps of a plan are in strictly increasing version
\* order; no two steps share a version.
C7_StrictlyIncreasing ==
    PlanReturnedOk =>
        \A i, j \in 1..Len(steps) :
            i < j => VersionBefore(steps[i].InstanceVersion, steps[j].InstanceVersion)

\* C7 as amended: the steps before the final step are in strictly increasing
\* version order and none is after the final step; the final step shares
\* the version of the step before it exactly when an interrupt is scheduled
\* at the last version of the range.
C7_IncreasingUpToFinalStep ==
    PlanReturnedOk =>
        /\ \A i, j \in 1..(Len(steps) - 1) :
              i < j => VersionBefore(steps[i].InstanceVersion, steps[j].InstanceVersion)
        /\ \A i \in 1..(Len(steps) - 1) :
              VersionAtMost(steps[i].InstanceVersion, Last(steps).InstanceVersion)
        /\ (\E i \in 1..(Len(steps) - 1) :
                steps[i].InstanceVersion = Last(steps).InstanceVersion)
           <=> (\E id \in MigrationIDs :
                    registry[id] = planTo /\ VersionBefore(planFrom, planTo))

\* C7 witness: a plan whose last interrupt step is at the version of the
\* final step, after an earlier interrupt step
C7_Witness ==
    /\ PlanReturnedOk
    /\ Len(steps) = 3
    /\ steps[2].InstanceVersion = steps[3].InstanceVersion

\* C8: step k+1 of the plan is not begun before every out-of-band migration
\* of step k has progress 1.0, and success is reported only after all steps.
C8_StepsWaitForMigrations ==
    /\ PlanReturnedOk =>
          \A k \in 1..Len(steps) :
              runIdx > k => \A id \in RangeOf(steps[k].OutOfBandMigrationIDs) :
                                oobProgress[id] = 1
    /\ (pc = "done" /\ err = NoError) => runIdx = Len(steps)

\* C9: when stitching a schema or scheduling the interrupts fails,
\* planUpgrade returns that error unchanged and no steps, and no further
\* schema is stitched after the failure.
C9_PlanAllOrNothing ==
    /\ raised # NoError =>
          /\ pc = "done"
          /\ err = raised
          /\ steps = <<>>
    /\ raised.kind = "StitchDefinitions" =>
          /\ Last(stitchCalls) = raised.detail
          /\ Len(stitchCalls) = schemaIdx
          /\ interrupts = <<>>
    /\ raised.kind = "ScheduleMigrationInterrupts" => stitchCalls = SchemaNames

\* C9 witness: stitching the second schema has failed
C9_Witness ==
    /\ pc = "done"
    /\ raised = ErrStitch(SchemaNames[2])
    /\ stitchCalls = <<SchemaNames[1], SchemaNames[2]>>

\* C10: MakeUpgradeRange returns an error exactly when from is after to; it
\* then returns no versions.
C10_RangeErrorIffInverted ==
    /\ RangeReturnedErr => VersionBefore(to, from) /\ versions = <<>>
    /\ RangeReturnedOk => VersionAtMost(from, to)
    /\ pc = "MakeUpgradeRangeLoop" => VersionAtMost(from, to)

\* C10 witness: MakeUpgradeRange({4,0}, {3,9}) has returned an error
C10_Witness ==
    /\ RangeReturnedErr
    /\ from = NewVersion(4, 0)
    /\ to = NewVersion(3, 9)
    /\ versions = <<>>

\* the order of progress values
RatioAtMost(a, b) == a.num * b.den <= b.num * a.den

\* a progress value in [0, 1]
InUnitInterval(a) == RatioAtMost(Ratio(0, 1), a) /\ RatioAtMost(a, Ratio(1, 1))

\* what Progress returns on the current table
CurrentProgress == changesetSpecMigratorProgressQuery(specCount, migratedSpecs)

\* C11: Progress of the changesetSpecMigrator lies in [0,1]; a successful
\* Up never lowers it and a successful Down never raises it.
C11_ProgressMonotone ==
    [][ /\ InUnitInterval(CurrentProgress')
        /\ (migCall' = "Up" /\ migErr' = NoError) =>
              RatioAtMost(CurrentProgress, CurrentProgress')
        /\ (migCall' = "Down" /\ migErr' = NoError) =>
              RatioAtMost(CurrentProgress', CurrentProgress) ]_vars

StuckAcrossTwoChecks ==
    /\ Len(driveLog) >= 2
    /\ driveLog[Len(driveLog)] = driveLog[Len(driveLog) - 1]
    /\ ~IsComplete(Last(driveLog))

\* C13: driveToCompletion ends on every migrator, with Progress at 1.0 (for
\* driveToZero, at 0.0) or with an error; Progress unchanged across two consecutive checks after an
\* Up ends it with StalledMigrationError.
C13_DriveTerminates ==
    /\ <>(drivePc = "done")
    /\ [](drivePc = "done" =>
            \/ driveErr # NoError
            \/ /\ driveLog # <<>>
               /\ IF driveFn = "driveToZero"
                  THEN IsZero(Last(driveLog))
                  ELSE IsComplete(Last(driveLog)))
    /\ [](StuckAcrossTwoChecks =>
            drivePc = "done" /\ driveErr = ErrStalledMigration)

C13_Witness ==
    /\ driveFn = "driveToCompletion"
    /\ drivePc = "done"
    /\ driveErr = ErrStalledMigration
    /\ driveLog = <<Ratio(0, 1), Ratio(3, 10), Ratio(3, 10)>>

\* the migration IDs listed in the interrupts
InterruptIDs ==
    UNION {RangeOf(interrupts[i].MigrationIDs) : i \in 1..Len(interrupts)}

\* the interrupts have been scheduled
Scheduled == pc = "steps" \/ (pc = "runUpgrade" /\ versions # <<>>)

\* C14: an interrupt lists migration m exactly when from < m.deprecatedAt
\* <= to, and it is the interrupt at m.deprecatedAt; a migration deprecated
\* at 2.0 has an interrupt at 2.0 in the plan from 1.0 to 3.0 and none in
\* the plan from 2.0 to 3.0.
C14_InterruptIffInRange ==
    Scheduled =>
        /\ \A id \in MigrationIDs :
              id \in InterruptIDs <=>
                  VersionBefore(planFrom, registry[id]) /\ VersionAtMost(registry[id], planTo)
        /\ \A i \in 1..Len(interrupts) :
              \A id \in RangeOf(interrupts[i].MigrationIDs) :
                  registry[id] = interrupts[i].Version
        /\ (planTo = NewVersion(3, 0) /\ registry[1] = NewVersion(2, 0)) =>
              /\ planFrom = NewVersion(1, 0) =>
                    \E i \in 1..Len(interrupts) :
                       /\ interrupts[i].Version = NewVersion(2, 0)
                       /\ 1 \in RangeOf(interrupts[i].MigrationIDs)
              /\ planFrom = NewVersion(2, 0) => 1 \notin InterruptIDs

\* C14 witness: the plan from 1.0 to 3.0 with migration 1 deprecated at 2.0
\* and migration 2 deprecated at 1.0 has one interrupt, at 2.0, for 1 only
C14_Witness ==
    /\ Scheduled
    /\ planFrom = NewVersion(1, 0)
    /\ planTo = NewVersion(3, 0)
    /\ registry[1] = NewVersion(2, 0)
    /\ registry[2] = NewVersion(1, 0)
    /\ interrupts = <<[Version |-> NewVersion(2, 0), MigrationIDs |-> <<1>>]>>

\* C15: the interrupts are strictly ascending by version, no two of them
\* have the same version, and each migration ID occurs once at most.
C15_InterruptsStrictlyAscending ==
    Scheduled =>
        /\ \A i \in 1..(Len(interrupts) - 1) :
              VersionBefore(interrupts[i].Version, interrupts[i + 1].Version)
        /\ \A i, j \in 1..Len(interrupts) :
              i # j =>
                 /\ interrupts[i].Version # interrupts[j].Version
                 /\ RangeOf(interrupts[i].MigrationIDs)
                       \cap RangeOf(interrupts[j].MigrationIDs) = {}
        /\ \A i \in 1..Len(interrupts) :
              /\ interrupts[i].MigrationIDs # <<>>
              /\ \A k \in 1..(Len(interrupts[i].MigrationIDs) - 1) :
                    interrupts[i].MigrationIDs[k] < interrupts[i].MigrationIDs[k + 1]
        /\ \A i \in 1..Len(interrupts) :
              RangeOf(interrupts[i].MigrationIDs) =
                 {id \in InterruptIDs : registry[id] = interrupts[i].Version}

\* C15 witness: two migrations deprecated at the same version share one
\* interrupt
C15_Witness ==
    /\ Scheduled
    /\ registry[1] = registry[2]
    /\ Len(interrupts) = 1
    /\ interrupts[1].MigrationIDs = <<1, 2>>

\* the ids of the nodes of S that have no child in S
LeavesOf(S) == {d.id : d \in {x \in S : ~\E c \in S : x.id \in c.parents}}

\* C16: the LeafSet of a tag holds the nodes of that tag's own snapshot that
\* have no child in that snapshot; with snapshots {A} and {A, B} the leaf
\* sets are {A} and {B}.
C16_LeafSetOfOwnSnapshot ==
    /\ \A i \in 1..Len(stLeafSets) :
          RangeOf(stLeafSets[i]) = LeavesOf(stSnapshots[i])
    /\ (stPc = "done" /\ stErr = NoError /\ stSnapshots[1] = {NodeA}
           /\ stSnapshots[2] = {NodeA, NodeB}) =>
          /\ stLeafSets[1] = <<1>>
          /\ stLeafSets[2] = <<2>>

C16_Witness ==
    /\ stPc = "done"
    /\ stErr = NoError
    /\ stSnapshots[1] = {NodeA}
    /\ stSnapshots[2] = {NodeA, NodeB}
    /\ stLeafSets[1] = <<1>>
    /\ stLeafSets[2] = <<2>>

\* C17: the identifiers of every LeafSet are in ascending order, whatever
\* the order the snapshot was fetched in.
C17_LeafSetAscending ==
    \A i \in 1..Len(stLeafSets) :
       \A k \in 1..(Len(stLeafSets[i]) - 1) : stLeafSets[i][k] < stLeafSets[i][k + 1]

\* C17 witness: C was fetched before B and the leaf set is B, C
C17_Witness ==
    /\ stPc = "fetch"
    /\ stLeafSets # <<>>
    /\ Last(stLeafSets) = <<2, 3>>
    /\ \E i, j \in 1..Len(stFetched) :
          i < j /\ stFetched[i] = NodeC /\ stFetched[j] = NodeB

\* a node or an edge of the snapshot of tag i is missing at tag j
MissingLater(i, j) ==
    \E d \in stSnapshots[i] :
       ~\E e \in stSnapshots[j] : e.id = d.id /\ d.parents \subseteq e.parents

\* C18: when a node or edge of an earlier tag's snapshot is missing from a
\* later tag's snapshot, resolveLeafSets returns InconsistentHistoryError,
\* which is not the fetch error, and no leaf sets.
C18_InconsistentHistory ==
    /\ ErrInconsistentHistory # ErrDefinitionFetch
    /\ (stPc = "done" /\ \E i, j \in 1..Len(stSnapshots) : i < j /\ MissingLater(i, j)) =>
          /\ stErr \in {ErrInconsistentHistory, ErrDefinitionFetch}
          /\ stLeafSets = <<>>
    /\ (stPc = "done" /\ stErr = ErrInconsistentHistory) =>
          \E i, j \in 1..Len(stSnapshots) : i < j /\ MissingLater(i, j)
    /\ (stPc = "done" /\ stErr # NoError) => stLeafSets = <<>>

\* C18 witness: A, recorded at the first tag, is missing at the second
C18_Witness ==
    /\ stPc = "done"
    /\ stErr = ErrInconsistentHistory
    /\ stLeafSets = <<>>
    /\ NodeA \in stSnapshots[1]
    /\ NodeA \notin stSnapshots[2]

\* C20: when from = to, MakeUpgradeRange returns the range of from alone
\* and the plan is one step, at from, with no out-of-band migration IDs.
C20_SingleVersionPlan ==
    from = to =>
        /\ ~RangeReturnedErr
        /\ RangeReturnedOk => versions = <<from>>
        /\ PlanReturnedOk =>
              /\ Len(steps) = 1
              /\ steps[1].InstanceVersion = from
              /\ steps[1].OutOfBandMigrationIDs = <<>>

\* C20 witness: the plan from 4.0 to 4.0 has been returned
C20_Witness ==
    /\ PlanReturnedOk
    /\ from = NewVersion(4, 0)
    /\ to = NewVersion(4, 0)
    /\ versions = <<NewVersion(4, 0)>>
    /\ Len(steps) = 1

\* C21: CompareVersions is a strict total order by major, then minor:
\* Equal on identical versions only, Before one way exactly when After the
\* other way, and Before is transitive.
C21_CompareIsTotalOrder ==
    fnOut.op = "CompareVersions" =>
        /\ fnOut.aa = VersionOrderEqual
        /\ fnOut.ab = VersionOrderEqual <=> fnIn.a = fnIn.b
        /\ fnOut.ab = VersionOrderBefore <=> fnOut.ba = VersionOrderAfter
        /\ fnOut.ab = VersionOrderAfter <=> fnOut.ba = VersionOrderBefore
        /\ (fnOut.ab = VersionOrderBefore /\ fnOut.bc = VersionOrderBefore) =>
              fnOut.ac = VersionOrderBefore
        /\ fnOut.ab = VersionOrderBefore <=> VersionBefore(fnIn.a, fnIn.b)

\* C21 witness: 3.47 is before 4.0, 4.0 is before 4.10, and 3.47 is before 4.10
C21_Witness ==
    /\ fnOut.op = "CompareVersions"
    /\ fnIn.a = NewVersion(3, 47)
    /\ fnIn.b = NewVersion(4, 0)
    /\ fnIn.c = NewVersion(4, 10)
    /\ fnOut.ab = VersionOrderBefore
    /\ fnOut.bc = VersionOrderBefore
    /\ fnOut.ac = VersionOrderBefore

\* C22: bump of 3.47 is 4.0 and bump of 3.10 is 3.11.
C22_BumpExamples ==
    fnOut.op = "bump" =>
        /\ fnIn.a = NewVersion(3, 47) => fnOut.result = NewVersion(4, 0)
        /\ fnIn.a = NewVersion(3, 10) => fnOut.result = NewVersion(3, 11)

C22_Witness ==
    /\ fnOut.op = "bump"
    /\ fnIn.a = NewVersion(3, 47)
    /\ fnOut.result = NewVersion(4, 0)

\* s without its leading zeros, one digit at least
RECURSIVE StripZeros(_)
StripZeros(s) == IF Len(s) > 1 /\ s[1] = "0" THEN StripZeros(Tail(s)) ELSE s

\* s between positions i and j is a number
DigitsBetween(s, i, j) == i <= j /\ \A k \in i..j : IsDigit(s[k])

\* the ways to read s as [v]major.minor[.patch]: where the major starts and
\* where the two dots are (the second is Len(s) + 1 without a patch)
VersionReadings(s) ==
    {r \in [start : {1, 2}, dot : 1..Len(s), end : 1..(Len(s) + 1)] :
        /\ r.start = 2 => s[1] = "v"
        /\ s[r.dot] = "."
        /\ DigitsBetween(s, r.start, r.dot - 1)
        /\ DigitsBetween(s, r.dot + 1, r.end - 1)
        /\ \/ r.end = Len(s) + 1
           \/ /\ r.end <= Len(s)
              /\ s[r.end] = "."
              /\ DigitsBetween(s, r.end + 1, Len(s))}

\* C23: NewVersionFromString accepts exactly [v]major.minor[.patch] and
\* returns {major, minor}; parsing String() and GitTag() of a version
\* returns the version.
C23_ParseAcceptsVersionFormat ==
    /\ fnOut.op = "NewVersionFromString" =>
          /\ fnOut.result.ok <=> VersionReadings(fnIn.str) # {}
          /\ ~fnOut.result.ok =>
                fnOut.result.version = [Major |-> <<"0">>, Minor |-> <<"0">>]
          /\ \A r \in VersionReadings(fnIn.str) :
                /\ fnOut.result.version.Major =
                      StripZeros(SubSeq(fnIn.str, r.start, r.dot - 1))
                /\ fnOut.result.version.Minor =
                      StripZeros(SubSeq(fnIn.str, r.dot + 1, r.end - 1))
    /\ fnOut.op = "FormatAndParse" =>
          /\ fnOut.ofString = [version |-> fnIn.a, ok |-> TRUE]
          /\ fnOut.ofGitTag = [version |-> fnIn.a, ok |-> TRUE]
          /\ Len(fnOut.gitTag) = Len(fnOut.string) + 3

\* C24: MakeUpgradeRange terminates for from <= to: while the loop runs, its
\* variable is in the series of to or can still leave its own series, so
\* that bumping it produces a version after to.
C24_RangeLoopTerminates ==
    (pc = "MakeUpgradeRangeLoop" /\ VersionAtMost(from, to) /\ VersionAtMost(v, to)) =>
        \/ v.Major = to.Major
        \/ v.Minor <= lastInSeriesAt(v.Major)

\* C25: Progress of the changesetSpecMigrator returns 1.0 exactly when no
\* changeset spec requires migration.
C25_CompleteIffAllMigrated ==
    (migCall = "Progress" /\ migErr = NoError) =>
        (IsComplete(migProgress) <=> migratedSpecs = 1..specCount)

\* C26: every step of a plan is at a version of the range given to
\* planUpgrade, has one entry per schema name, and lists for each schema
\* the leaf set resolved for the step's tag.
C26_StepsWithinRange ==
    (pc = "runUpgrade" /\ versions # <<>>) =>
        \A i \in 1..Len(steps) :
           /\ steps[i].InstanceVersion \in RangeOf(versions)
           /\ DOMAIN steps[i].LeafMigrationIDsBySchema = RangeOf(SchemaNames)
           /\ \A schemaName \in RangeOf(SchemaNames) :
                 steps[i].LeafMigrationIDsBySchema[schemaName] =
                    LeafSet(Snapshot(schemaName, GitTag(steps[i].InstanceVersion)))

\* the ids of the specs that require migration
Pending == (1..specCount) \ migratedSpecs

\* C27: an Up call migrates 100 specs at most and only specs that require
\* migration; in a sequence of Up calls, one call at a time, no migrated
\* spec is migrated again, and with N specs requiring migration the Up
\* calls that returned nil have left N - 100 for each call, and none after
\* ceil(N / 100) calls.
C27_BoundedBatches ==
    /\ \A c \in Callers :
          /\ Cardinality(migBatch[c]) <= changesetSpecMigrationCountPerRun
          /\ txMigrated[c] \subseteq migBatch[c]
    /\ numCallers = 1 =>
          /\ \A c \in Callers :
                /\ txPc[c] = "migrate" => migBatch[c] \subseteq Pending
                /\ txMigrated[c] \cap migratedSpecs = {}
          /\ Cardinality(Pending) =
                IF pending0 > upOk * changesetSpecMigrationCountPerRun
                THEN pending0 - upOk * changesetSpecMigrationCountPerRun
                ELSE 0
          /\ upOk * changesetSpecMigrationCountPerRun >= pending0 => Pending = {}

\* C27 witness: 201 specs required migration and three Up calls, one after
\* the other, have migrated them all
C27_Witness ==
    /\ numCallers = 1
    /\ pending0 = 2 * changesetSpecMigrationCountPerRun + 1
    /\ upOk = 3
    /\ \A c \in Callers : txPc[c] = "idle"
    /\ migErr = NoError
    /\ Pending = {}

\* C28: a batch of Up is atomic: an Up that returns an error leaves no spec
\* migrated that was not migrated before, however far it got; the table
\* changes by whole batches only; and a Progress call made during an Up
\* sees the table before the batch or after the whole batch.
C28_BatchAtomic ==
    /\ [][ \A c \in Callers :
              (txPc[c] # "idle" /\ txPc'[c] = "idle" /\ migErr' # NoError) =>
                 /\ migratedSpecs' = migratedSpecs
                 /\ txMigrated'[c] = {} ]_vars
    /\ [][ migratedSpecs' # migratedSpecs =>
              \E c \in Callers :
                 /\ txPc[c] = "migrate"
                 /\ migratedSpecs' = migratedSpecs \cup migBatch[c] ]_vars
    /\ []( (migCall = "Progress" /\ migErr = NoError) =>
              \E S \in {migratedSpecs} \cup
                        {migratedSpecs \cup migBatch[c] : c \in Callers} :
                 migProgress = changesetSpecMigratorProgressQuery(specCount, S) )

\* C28 witness: Progress was called while half of a batch of 100 was
\* migrated in the open transaction
C28_Witness ==
    /\ \E c \in Callers :
          /\ txPc[c] = "migrate"
          /\ Cardinality(migBatch[c]) = changesetSpecMigrationCountPerRun
          /\ Cardinality(txMigrated[c]) = changesetSpecMigrationCountPerRun \div 2
    /\ migCall = "Progress"
    /\ migErr = NoError

\* C29: a Down call of the changesetSpecMigrator reverses one batch: it
\* un-migrates 100 specs at most.
C29_DownBounded ==
    [][ (migCall' = "Down" /\ migErr' = NoError) =>
           Cardinality(migratedSpecs \ migratedSpecs') <= changesetSpecMigrationCountPerRun ]_vars

\* C30: an error of Up, Down or Progress ends the drive with that error:
\* the failed call is the last call the runner makes.
C30_ErrorEndsDrive ==
    /\ [](driveErr # NoError => drivePc = "done")
    /\ [][ drivePc = "done" =>
              UNCHANGED <<drivePc, driveLog, upCalls, downCalls, driveErr>> ]_vars
    /\ [][ (driveErr = NoError /\ driveErr' # NoError) =>
              /\ drivePc' = "done"
              /\ upCalls' + downCalls' <= upCalls + downCalls + 1
              /\ driveLog' \in {driveLog} \cup
                    {Append(driveLog, p) : p \in ProgressValues} ]_vars

\* C30 witness: the third Down of a driveToZero failed after the checks
\* 1.0 and 0.5
C30_Witness ==
    /\ driveFn = "driveToZero"
    /\ drivePc = "done"
    /\ driveErr = ErrMigratorBatch
    /\ downCalls = 3
    /\ driveLog = <<Ratio(1, 1), Ratio(1, 2)>>

====
